---------------------------- MODULE Spec2Model ----------------------------
(***************************************************************************)
(* Model of the matched-filter detection engine of SeismicMatch            *)
(* (seismic_match/template_matching.py, seismic_match/data_handling.py)    *)
(* and of the merging of detections (scripts/create_event_families.py).    *)
(*                                                                         *)
(* The specifications of this module:                                      *)
(*   SpecChunk  find_optimal_chunksize applied to bounded inputs           *)
(*   SpecPeaks  find_peaks applied to bounded correlation sequences        *)
(*   SpecCC     matrix_cc on a chunk of templates and data traces          *)
(*   SpecPair   matrix_cc on one template and one trace of the same scale  *)
(*   SpecProbe  the memory probe of estimate_gpu_capacity                  *)
(*   SpecMerge  merge of create_event_families                             *)
(*   Spec       the match_templates loop with allocation failures and      *)
(*              unreadable files; SpecLive adds its fairness               *)
(*   SpecSplit  the split of the template groups over the GPU workers      *)
(*   SpecScript a run of match_templates followed by the selection of      *)
(*              templates of the next invocation of the script             *)
(*                                                                         *)
(* Fixed point: correlation values are integers in hundredths (1.01 is     *)
(* 101); thresholds on them are compared in quarter-millionths so that the *)
(* MAD of a sequence (a multiple of 1/4 hundredth) and its water level     *)
(* 1e-6 are both integers.                                                 *)
(***************************************************************************)
EXTENDS Integers, Sequences, FiniteSets

VARIABLES
    \* ---- SpecChunk: one call of find_optimal_chunksize
    fc_chunk,       \* argument chunk
    fc_N,           \* argument N
    fc_ret,         \* returned chunk size (0 before the first call)
    \* ---- SpecPeaks: one call of find_peaks
    fp_cc,          \* argument day_cc (hundredths)
    fp_distance,    \* argument distance
    fp_config,      \* self.config: cc_threshold, mad_threshold, combine_thresholds
    fp_ret,         \* returned [tops, cc_values, mad] (NoReturn before the call)
    \* ---- SpecCC: one call of matrix_cc
    mc_N,           \* templates.shape[1], the common template length
    mc_n_templates, \* templates.shape[0]
    mc_data_len,    \* data_len: the length of every trace of the data chunk
    mc_float64,     \* whether the backend's ifft returns float64 (cc.dtype == float)
    mc_config,      \* self.config
    mc_pc,          \* "idle", "enter", "data_loop", "temp_loop", "returned"
    mc_j,           \* index of the data loop
    mc_i,           \* index of the template loop
    mc_trace,       \* data_tr of the current j (units of 0.01)
    mc_temp,        \* temp_tr of the last pair
    mc_pair,        \* what the last pair computed: raw, data_norm, mask, cc
    mc_written,     \* the lines process_matches appended for the last pair
    mc_n_matches,   \* n_matches
    mc_correlated,  \* the pairs <<i, j>> whose inverse transform was taken
    mc_log,         \* the match file of every template row: the detection
                    \* times of the lines appended, as <<data row, lag>>
    \* ---- Spec: one run of match_templates
    inp,            \* the run's inputs: files, their readability, the device
    om,             \* the locals of match_templates, the template logs and
                    \* what the run computed so far
    \* ---- SpecProbe: one call of estimate_gpu_capacity
    gp_use_cupy,    \* self.config.use_cupy
    gp_free,        \* free device memory, in buffers of shape (cc_len, 1, 1)
    gp_N_MAX,       \* N_MAX
    gp_cc,          \* the size of the buffer bound to cc (0: unbound)
    gp_pc,          \* "idle", "enter", "loop", "returned"
    gp_ret,         \* the returned capacity (-1 before the return)
    \* ---- SpecMerge: one call of merge (create_event_families)
    mg_max_t_diff,  \* config.max_t_diff (seconds)
    mg_events,      \* event_detections: rows of [t, cc], t the origin time of
                    \* column 0 and cc the comma-joined column 2 as a sequence
    mg_timestamps,  \* timestamps: per row the comma-joined times, a sequence
    mg_pc,          \* "idle", "enter", "loop", "returned"
    mg_ret,         \* the returned rows (<<>> before the return)
    \* ---- SpecSplit: main of scripts/match_templates.py with n_gpu > 1
    sp_pc,          \* "idle", "main", "zip", "workers"
    sp_template_files, \* template_files: the templates without a match file
    sp_n_gpu,       \* config.n_gpu
    sp_groups,      \* template_groups
    sp_next,        \* how many groups the generator chunks() has consumed
    sp_args,        \* args: per worker [temps, cuda_device]
    sp_done,        \* per worker, how many of its groups it has matched
    sp_logs,        \* per template file, the workers that appended to its log
    \* ---- SpecScript: a run of match_templates and the next invocation of
    \*      the script
    sc_pc,          \* "idle", "matching", "selected", "nothing"
    sc_template_files  \* template_files of the next invocation (line 39)

chunkVars == <<fc_chunk, fc_N, fc_ret>>
peakVars  == <<fp_cc, fp_distance, fp_config, fp_ret>>
ccInputs  == <<mc_N, mc_n_templates, mc_data_len, mc_float64, mc_config>>
ccVars    == <<ccInputs, mc_pc, mc_j, mc_i, mc_trace, mc_temp, mc_pair,
               mc_written, mc_n_matches, mc_correlated, mc_log>>
orchVars  == <<inp, om>>
probeVars == <<gp_use_cupy, gp_free, gp_N_MAX, gp_cc, gp_pc, gp_ret>>
mergeVars == <<mg_max_t_diff, mg_events, mg_timestamps, mg_pc, mg_ret>>
scriptVars == <<sp_pc, sp_template_files, sp_n_gpu, sp_groups, sp_next,
                sp_args, sp_done, sp_logs, sc_pc, sc_template_files>>
vars      == <<chunkVars, peakVars, ccVars, orchVars, probeVars, mergeVars,
               scriptVars>>

----------------------------------------------------------------------------
(* Bounds of the model *)

MaxCap      == 9     \* largest capacity handed to find_optimal_chunksize
MaxTotal    == 12    \* largest item count handed to find_optimal_chunksize
MaxCcLen    == 6     \* longest correlation sequence handed to find_peaks
MaxDistance == 3     \* largest exclusion distance (template length)
MaxM        == 3     \* longest data trace handed to matrix_cc
MaxTemplLen == 2     \* longest template handed to matrix_cc
MaxData     == 3     \* most day files of a channel
MaxTempl    == 3     \* most templates of a group
MaxGpuCap   == 3     \* largest capacity the memory probe reports
MaxUnreadable == 1   \* most unreadable files per role
MaxPairData == 5     \* longest data trace of a single-pair call of matrix_cc
MaxFreeMem  == 40    \* most free device memory, in (cc_len, 1, 1) buffers
MaxDetections == 3   \* most detections handed to merge
MaxTime     == 4     \* latest origin time of a detection (seconds)
MaxGpus     == 3     \* most GPUs of the machine (config.n_gpu)

----------------------------------------------------------------------------
(* Small helpers *)

Abs(x) == IF x < 0 THEN -x ELSE x
Min2(a, b) == IF a <= b THEN a ELSE b
Max2(a, b) == IF a >= b THEN a ELSE b

\* Python's  int(a / b) + (a % b > 0)  for a >= 0, b > 0
CeilDiv(a, b) == (a \div b) + (IF a % b > 0 THEN 1 ELSE 0)

\* all sequences over S of length lo..hi
SeqsOf(S, lo, hi) == UNION {[1..n -> S] : n \in lo..hi}

----------------------------------------------------------------------------
(* find_optimal_chunksize *)

\* the two true divisions of find_optimal_chunksize: one of them divides by
\* zero (ZeroDivisionError) when chunk = 0 or when N = 0
ChunksizeRaises(chunk, N) == chunk = 0 \/ CeilDiv(N, chunk) = 0

\* a slip: the remainder term of the second division is forgotten
find_optimal_chunksize_floor(chunk, N) ==
    LET n_it == CeilDiv(N, chunk)
    IN  N \div n_it

find_optimal_chunksize(chunk, N) ==
    LET n_it == CeilDiv(N, chunk)
    IN  CeilDiv(N, n_it)

\* the variables of find_optimal_chunksize when it is not under study
ChunkIdle ==
    /\ fc_chunk = 0
    /\ fc_N = 0
    /\ fc_ret = 0

ChunkInit ==
    /\ fc_chunk \in 1..MaxCap
    /\ fc_N \in 1..MaxTotal
    /\ fc_ret = 0

ChunkCall ==
    /\ fc_ret = 0
    /\ fc_chunk >= 1
    /\ fc_ret' = find_optimal_chunksize(fc_chunk, fc_N)
    /\ UNCHANGED <<fc_chunk, fc_N>>
    /\ UNCHANGED <<peakVars, ccVars, orchVars,
                   probeVars, mergeVars, scriptVars>>

----------------------------------------------------------------------------
(* find_peaks *)

\* value at lag k (lags count from 0 as in the source)
At(s, k) == s[k + 1]

RECURSIVE Insert(_, _)
Insert(v, s) ==
    IF s = <<>> THEN <<v>>
    ELSE IF v <= Head(s) THEN <<v>> \o s
    ELSE <<Head(s)>> \o Insert(v, Tail(s))

RECURSIVE SortSeq(_)
SortSeq(s) == IF s = <<>> THEN <<>> ELSE Insert(Head(s), SortSeq(Tail(s)))

\* twice the median of a non-empty sequence (numpy averages the two middle
\* values of an even-length input)
Median2(s) ==
    LET t == SortSeq(s)
        n == Len(s)
    IN  IF n % 2 = 1 THEN 2 * t[(n + 1) \div 2]
        ELSE t[n \div 2] + t[n \div 2 + 1]

\* four times the median absolute deviation, in hundredths
Mad4(day_cc) ==
    LET med2 == Median2(day_cc)
        dev2 == [i \in 1..Len(day_cc) |-> Abs(2 * day_cc[i] - med2)]
    IN  Median2(dev2)

QPerHundredth == 40000   \* quarter-millionths in one hundredth
MadWaterLevelQ == 4      \* the water level 1e-6 in quarter-millionths

\* a slip: the water level of lines 224-225 is forgotten
MadQ_nofloor(day_cc) == Mad4(day_cc) * (QPerHundredth \div 4)

\* mad after the water level, in quarter-millionths
MadQ(day_cc) ==
    LET m4 == Mad4(day_cc)
    IN  IF m4 = 0 THEN MadWaterLevelQ ELSE m4 * (QPerHundredth \div 4)

\* a slip: max and min of lines 228-232 are exchanged
LocalThresholdQ_swapped(day_cc, cfg) ==
    LET ccQ  == cfg.cc_threshold * QPerHundredth
        madQ == cfg.mad_threshold * MadQ(day_cc)
    IN  IF cfg.combine_thresholds THEN Min2(ccQ, madQ) ELSE Max2(ccQ, madQ)

\* local_threshold in quarter-millionths
LocalThresholdQ(day_cc, cfg) ==
    LET ccQ  == cfg.cc_threshold * QPerHundredth
        madQ == cfg.mad_threshold * MadQ(day_cc)
    IN  IF cfg.combine_thresholds THEN Max2(ccQ, madQ) ELSE Min2(ccQ, madQ)

AbsQ(day_cc, k) == Abs(At(day_cc, k)) * QPerHundredth

\* line 233: tops = where(abs_cc >= local_threshold), the candidate lags
AboveThreshold(day_cc, cfg) ==
    LET local_threshold == LocalThresholdQ(day_cc, cfg)
    IN  {k \in 0..(Len(day_cc) - 1) : AbsQ(day_cc, k) >= local_threshold}

\* the inner while loop: x walks to the end of the run, p is the largest
\* value seen, a larger value moves the mark from x to x + 1
RECURSIVE RunScan(_, _, _, _, _)
RunScan(day_cc, thr, x, p, peaks) ==
    IF x + 1 < Len(day_cc) /\ AbsQ(day_cc, x + 1) >= thr
    THEN IF AbsQ(day_cc, x + 1) > p
         THEN RunScan(day_cc, thr, x + 1, AbsQ(day_cc, x + 1),
                      (peaks \ {x}) \cup {x + 1})
         ELSE RunScan(day_cc, thr, x + 1, p, peaks)
    ELSE [peaks |-> peaks, x |-> x]

\* the for loop over the iterator of tops, from lag `from` on
RECURSIVE RunReduction(_, _, _, _)
RunReduction(day_cc, thr, from, peaks) ==
    IF from >= Len(day_cc) THEN peaks
    ELSE IF AbsQ(day_cc, from) < thr
         THEN RunReduction(day_cc, thr, from + 1, peaks)
         ELSE LET r == RunScan(day_cc, thr, from, AbsQ(day_cc, from),
                               peaks \cup {from})
              IN  RunReduction(day_cc, thr, r.x + 1, r.peaks)

\* sorted(tops, key=abs_cc, reverse=True): stable, equal keys keep lag order
RECURSIVE SortedByCC(_, _)
SortedByCC(day_cc, tops) ==
    IF tops = {} THEN <<>>
    ELSE LET x == CHOOSE a \in tops : \A b \in tops :
                      \/ Abs(At(day_cc, a)) > Abs(At(day_cc, b))
                      \/ Abs(At(day_cc, a)) = Abs(At(day_cc, b)) /\ a <= b
         IN  <<x>> \o SortedByCC(day_cc, tops \ {x})

\* a slice bound of an array of length n: negative counts from the end
SliceBound(i, n) ==
    IF i < 0 THEN Max2(i + n, 0) ELSE Min2(i, n)

\* the lags of peaks[lo:hi]
SliceLags(lo, hi, n) ==
    {k \in 0..(n - 1) : SliceBound(lo, n) <= k /\ k < SliceBound(hi, n)}

\* one step of the exclusion loop
Exclude(peaks, x, distance, n) ==
    IF x \notin peaks THEN peaks
    ELSE (peaks \ SliceLags(x - distance, x + distance, n)) \cup {x}

RECURSIVE Exclusion(_, _, _, _)
Exclusion(order, peaks, distance, n) ==
    IF order = <<>> THEN peaks
    ELSE Exclusion(Tail(order), Exclude(peaks, Head(order), distance, n),
                   distance, n)

\* a slip: the marked lags come out in descending order
RECURSIVE AscendingLags_descending(_)
AscendingLags_descending(peaks) ==
    IF peaks = {} THEN <<>>
    ELSE LET m == CHOOSE a \in peaks : \A b \in peaks : a >= b
         IN  <<m>> \o AscendingLags_descending(peaks \ {m})

\* cp.where(peaks)[0]: the marked lags in ascending order
RECURSIVE AscendingLags(_)
AscendingLags(peaks) ==
    IF peaks = {} THEN <<>>
    ELSE LET m == CHOOSE a \in peaks : \A b \in peaks : a <= b
         IN  <<m>> \o AscendingLags(peaks \ {m})

\* the marks after the run reduction (line 256)
Candidates(day_cc, cfg) ==
    RunReduction(day_cc, LocalThresholdQ(day_cc, cfg), 0, {})

find_peaks(day_cc, distance, cfg) ==
    IF Len(day_cc) = 0
    THEN [tops |-> <<>>, cc_values |-> <<>>, mad |-> MadWaterLevelQ]
    ELSE
    LET cand  == Candidates(day_cc, cfg)
        peaks == Exclusion(SortedByCC(day_cc, cand), cand, distance,
                           Len(day_cc))
        tops  == AscendingLags(peaks)
    IN  [tops      |-> tops,
         cc_values |-> [i \in 1..Len(tops) |-> At(day_cc, tops[i])],
         mad       |-> MadQ(day_cc)]

CcValues      == {-80, 0, 40, 80}
CcThresholds  == {50}
MadThresholds == {0, 8}

Configs ==
    [cc_threshold : CcThresholds, mad_threshold : MadThresholds,
     combine_thresholds : BOOLEAN]

NoReturn == [tops |-> <<-1>>, cc_values |-> <<>>, mad |-> 0]

\* the variables of find_peaks when it is not under study
PeaksIdle ==
    /\ fp_cc = <<>>
    /\ fp_distance = 0
    /\ fp_config = [cc_threshold |-> 0, mad_threshold |-> 0,
                    combine_thresholds |-> TRUE]
    /\ fp_ret = NoReturn

PeaksInit ==
    /\ fp_cc \in SeqsOf(CcValues, 1, MaxCcLen)
    /\ fp_distance \in 1..MaxDistance
    /\ fp_config \in Configs
    /\ fp_ret = NoReturn

PeaksCall ==
    /\ fp_ret = NoReturn
    /\ fp_distance >= 1
    /\ fp_ret' = find_peaks(fp_cc, fp_distance, fp_config)
    /\ UNCHANGED <<fp_cc, fp_distance, fp_config>>
    /\ UNCHANGED <<chunkVars, ccVars, orchVars,
                   probeVars, mergeVars, scriptVars>>

----------------------------------------------------------------------------
(* matrix_cc *)

\* scipy.fftpack.next_fast_len: the next 5-smooth number (lengths up to 8)
NextFastLen(n) == IF n = 7 THEN 8 ELSE n

RECURSIVE MaxOfSeq(_)
MaxOfSeq(s) ==
    IF Len(s) = 1 THEN s[1] ELSE Max2(Head(s), MaxOfSeq(Tail(s)))

RECURSIVE SumSeq(_)
SumSeq(s) == IF s = <<>> THEN 0 ELSE Head(s) + SumSeq(Tail(s))

Squares(s) == [k \in 1..Len(s) |-> s[k] * s[k]]

\* a / b rounded towards zero, b > 0
TruncDiv(a, b) == IF a < 0 THEN -((-a) \div b) ELSE a \div b

RECURSIVE ISqrtIn(_, _, _)
ISqrtIn(n, lo, hi) ==
    IF lo >= hi THEN lo
    ELSE LET mid == (lo + hi + 1) \div 2
         IN  IF mid * mid <= n THEN ISqrtIn(n, mid, hi)
             ELSE ISqrtIn(n, lo, mid - 1)

\* floor of the square root, n < 2^31
ISqrt(n) == ISqrtIn(n, 0, 46340)

\* temp_fft holds fft(tr, n=cc_len)[::-1] (lines 145-146).  Reversing the
\* spectrum X[0..L-1] gives X[(-1-k) mod L], the spectrum of the reversed
\* template multiplied by exp(-2 pi i n / L); the real part of the inverse
\* transform of temp_fft * data_fft at lag k is therefore
\*     sum_m temp[m] * data[k+m] * cos(2 pi m / L).
\* Cos10(m, L) is that cosine in tenths.
CosTable ==
    [L \in {1, 2, 3, 4, 5, 6, 8} |->
        CASE L = 1 -> <<10>>
          [] L = 2 -> <<10, -10>>
          [] L = 3 -> <<10, -5, -5>>
          [] L = 4 -> <<10, 0, -10, 0>>
          [] L = 5 -> <<10, 3, -8, -8, 3>>
          [] L = 6 -> <<10, 5, -5, -10, -5, 5>>
          [] L = 8 -> <<10, 7, 0, -7, -10, -7, 0, 7>>]

Cos10(m, L) == CosTable[L][m + 1]

\* real(ifft(cc_matrix[i, j,]))[:M-N+1], in thousandths (template units 1,
\* data units 0.01, cosine in tenths)
RawCC(temp, trace, L) ==
    LET N == Len(temp)
        M == Len(trace)
    IN  [k \in 1..(M - N + 1) |->
            SumSeq([m \in 1..N |-> temp[m] * trace[k + m - 1] * Cos10(m - 1, L)])]

pad_zeros(a, M, num, num2) ==
    [k \in 1..(M + num + num2) |->
        IF k > num /\ k <= num + Len(a) THEN a[k - num] ELSE 0]

\* a slip: the first element of the rolling sum is kept
window_sum_untrimmed(data, window_len) ==
    [k \in 1..(Len(data) - window_len + 1) |->
        SumSeq(SubSeq(data, k, k + window_len - 1))]

\* cp.convolve(data, ones(window_len), 'valid')[1:]
window_sum(data, window_len) ==
    LET valid == [k \in 1..(Len(data) - window_len + 1) |->
                     SumSeq(SubSeq(data, k, k + window_len - 1))]
    IN  Tail(valid)

\* data_norm of lines 312-316 (units of 1e-4)
DataNorm(trace, N) ==
    LET pad  == 1
        pad1 == (pad + 1) \div 2
        pad2 == pad \div 2
    IN  window_sum(Squares(pad_zeros(trace, Len(trace), pad1, pad2)), N)

Eps32e14 == 11920929   \* finfo(float32).eps = 1.1920929e-07, times 1e14

\* mask = data_norm <= (eps * N) ** .5, data_norm in units of 1e-4: the
\* squares e^2 * 1e-8 <= eps * N are compared, as e^2 <= eps * 1e14 * N / 1e6
EnergyMasked(e, N) == e <= ISqrt((Eps32e14 * N) \div 1000000)

CCLimit == 101   \* 1.01 in hundredths

\* a slip: the safety check of lines 333-337 is dropped
Exploded_never(c) == FALSE

\* the mask of line 333
Exploded(c) == Abs(c) > CCLimit

\* lines 319-337 for one pair: the correlation handed to find_peaks, in
\* hundredths, with what led to it
PairCC(temp, trace, L, float64) ==
    LET N         == Len(temp)
        raw       == RawCC(temp, trace, L)
        data_norm == DataNorm(trace, N)
        tempE     == SumSeq(Squares(temp))
        norm      == [k \in 1..Len(raw) |-> ISqrt(100 * data_norm[k] * tempE)]
        mask      == [k \in 1..Len(raw) |-> EnergyMasked(data_norm[k], N)]
        \* the raw value in hundredths, and the normalized one
        undivided == [k \in 1..Len(raw) |-> TruncDiv(raw[k], 10)]
        divided   == [k \in 1..Len(raw) |->
                         IF norm[k] = 0 THEN 0
                         ELSE TruncDiv(100 * raw[k], norm[k])]
        cc1       == [k \in 1..Len(raw) |->
                         IF float64
                         THEN (IF mask[k] THEN undivided[k] ELSE divided[k])
                         ELSE (IF mask[k] THEN 0 ELSE divided[k])]
        cc2       == [k \in 1..Len(raw) |->
                         IF Exploded(cc1[k]) THEN 0 ELSE cc1[k]]
    IN  [raw |-> raw, data_norm |-> data_norm, mask |-> mask,
         normalized |-> cc1, cc |-> cc2]

NoPair == [raw |-> <<>>, data_norm |-> <<>>, mask |-> <<>>,
           normalized |-> <<>>, cc |-> <<>>]

\* the lines process_matches appends for the peaks of one pair: lag (the
\* time is data_start + lag / sample_rate), cc, mad ratio, amplitude ratio
MatchLines(found, temp, trace) ==
    LET N == Len(temp)
    IN  [p \in 1..Len(found.tops) |->
            [lag |-> found.tops[p],
             cc  |-> found.cc_values[p],
             mad |-> <<found.cc_values[p], found.mad>>,
             amp |-> <<MaxOfSeq([m \in 1..N |-> Abs(trace[found.tops[p] + m])]),
                       MaxOfSeq([m \in 1..N |-> Abs(temp[m])])>>]]

\* process_matches: the file, opened for appending, after one line per peak
\* was written in the order of the peaks (lines 276-281); of a line the file
\* keeps here its time, data_start of row j plus the lag
process_matches(f, lines, j) ==
    f \o [p \in 1..Len(lines) |-> <<j, lines[p].lag>>]

DataSamples == {0, 1, 3}
TemplSamples == {1, 150}
RowCounts == {1, 2}          \* templates.shape[0]
TracesPerChunk == {1, 2}     \* len(data)
\* <<templates.shape[0], len(data)>>: several templates against one trace,
\* one template against several traces
ChunkShapes == (RowCounts \X TracesPerChunk) \ {<<2, 2>>}
CCConfigs == {c \in Configs : c.mad_threshold = 8 /\ c.combine_thresholds}

\* templates come out of create_templates with a signal in them
TemplRows(N) == {t \in [1..N -> TemplSamples] : \E m \in 1..N : t[m] # 0}

\* a slip: the length test of line 310 is dropped
TooShort_never(M, N) == FALSE

\* line 310: the trace is shorter than the templates
TooShort(M, N) == M < N

CCIdle ==
    /\ mc_N = 0
    /\ mc_n_templates = 0
    /\ mc_data_len = <<>>
    /\ mc_float64 = FALSE
    /\ mc_config = [cc_threshold |-> 0, mad_threshold |-> 0,
                    combine_thresholds |-> TRUE]
    /\ mc_pc = "idle"
    /\ mc_j = 0
    /\ mc_i = 0
    /\ mc_trace = <<>>
    /\ mc_temp = <<>>
    /\ mc_pair = NoPair
    /\ mc_written = <<>>
    /\ mc_n_matches = 0
    /\ mc_correlated = {}
    /\ mc_log = [i \in 0..(mc_n_templates - 1) |-> <<>>]

CCInit ==
    /\ mc_N \in 1..MaxTemplLen
    /\ mc_n_templates \in RowCounts
    /\ mc_data_len \in UNION {[1..n -> 1..MaxM] : n \in TracesPerChunk}
    /\ <<mc_n_templates, Len(mc_data_len)>> \in ChunkShapes
    /\ mc_float64 \in BOOLEAN
    /\ mc_config \in CCConfigs
    /\ mc_pc = "enter"
    /\ mc_j = 0
    /\ mc_i = 0
    /\ mc_trace = <<>>
    /\ mc_temp = <<>>
    /\ mc_pair = NoPair
    /\ mc_written = <<>>
    /\ mc_n_matches = 0
    /\ mc_correlated = {}
    /\ mc_log = [i \in 0..(mc_n_templates - 1) |-> <<>>]

\* lines 291-304: the length check and the spectral product
McEnter ==
    /\ mc_pc = "enter"
    /\ mc_pc' = IF mc_N > NextFastLen(MaxOfSeq(mc_data_len))
                THEN "returned" ELSE "data_loop"
    /\ UNCHANGED <<ccInputs, mc_j, mc_i, mc_trace, mc_temp, mc_pair,
                   mc_written, mc_n_matches, mc_correlated,
                   mc_log>>
    /\ UNCHANGED <<chunkVars, peakVars, orchVars,
                   probeVars, mergeVars, scriptVars>>

\* lines 308-316: the head of the data loop with a trace long enough
McTrace ==
    /\ mc_pc = "data_loop"
    /\ mc_j < Len(mc_data_len)
    /\ ~TooShort(mc_data_len[mc_j + 1], mc_N)
    /\ \E tr \in [1..mc_data_len[mc_j + 1] -> DataSamples] : mc_trace' = tr
    /\ mc_i' = 0
    /\ mc_pc' = "temp_loop"
    /\ UNCHANGED <<ccInputs, mc_j, mc_temp, mc_pair, mc_written,
                   mc_n_matches, mc_correlated,
                   mc_log>>
    /\ UNCHANGED <<chunkVars, peakVars, orchVars,
                   probeVars, mergeVars, scriptVars>>

\* lines 309-311: M < N, continue
McSkipTrace ==
    /\ mc_pc = "data_loop"
    /\ mc_j < Len(mc_data_len)
    /\ TooShort(mc_data_len[mc_j + 1], mc_N)
    /\ mc_j' = mc_j + 1
    /\ UNCHANGED <<ccInputs, mc_pc, mc_i, mc_trace, mc_temp, mc_pair,
                   mc_written, mc_n_matches, mc_correlated,
                   mc_log>>
    /\ UNCHANGED <<chunkVars, peakVars, orchVars,
                   probeVars, mergeVars, scriptVars>>

\* lines 318-346: the body of the template loop for the pair (i, j)
McPair ==
    /\ mc_pc = "temp_loop"
    /\ mc_i < mc_n_templates
    /\ \E temp \in TemplRows(mc_N) :
        LET L     == NextFastLen(MaxOfSeq(mc_data_len))
            pair  == PairCC(temp, mc_trace, L, mc_float64)
            found == find_peaks(pair.cc, mc_N, mc_config)
            lines == MatchLines(found, temp, mc_trace)
        IN  /\ mc_temp' = temp
            /\ mc_pair' = pair
            /\ mc_written' = lines
            /\ mc_n_matches' = mc_n_matches + Len(lines)
            /\ mc_log' = [mc_log EXCEPT ![mc_i] = process_matches(@, lines, mc_j)]
    /\ mc_correlated' = mc_correlated \cup {<<mc_i, mc_j>>}
    /\ mc_i' = mc_i + 1
    /\ UNCHANGED <<ccInputs, mc_pc, mc_j, mc_trace>>
    /\ UNCHANGED <<chunkVars, peakVars, orchVars,
                   probeVars, mergeVars, scriptVars>>

\* the template loop is exhausted: next data trace (the locals of the last
\* pair are dead from here on)
McNextTrace ==
    /\ mc_pc = "temp_loop"
    /\ mc_i = mc_n_templates
    /\ mc_j' = mc_j + 1
    /\ mc_pc' = "data_loop"
    /\ mc_trace' = <<>>
    /\ mc_temp' = <<>>
    /\ mc_pair' = NoPair
    /\ mc_written' = <<>>
    /\ UNCHANGED <<ccInputs, mc_i, mc_n_matches, mc_correlated,
                   mc_log>>
    /\ UNCHANGED <<chunkVars, peakVars, orchVars,
                   probeVars, mergeVars, scriptVars>>

\* lines 347-348: return n_matches
McReturn ==
    /\ mc_pc = "data_loop"
    /\ mc_j = Len(mc_data_len)
    /\ mc_pc' = "returned"
    /\ UNCHANGED <<ccInputs, mc_j, mc_i, mc_trace, mc_temp, mc_pair,
                   mc_written, mc_n_matches, mc_correlated,
                   mc_log>>
    /\ UNCHANGED <<chunkVars, peakVars, orchVars,
                   probeVars, mergeVars, scriptVars>>

----------------------------------------------------------------------------
(* match_templates *)

\* a local that holds a buffer: unbound (never assigned, or deleted), None,
\* or loaded with the rows of the readable files (and, for a transform, the
\* FFT length it was computed with)
Unbound == [state |-> "unbound", rows |-> <<>>, cc_len |-> 0]
IsNone  == [state |-> "none", rows |-> <<>>, cc_len |-> 0]
Loaded(rows, L) == [state |-> "loaded", rows |-> rows, cc_len |-> L]

\* files[from:from+size] of a list of n files, files being named 0..n-1
Slice(n, from, size) ==
    [k \in 1..(Min2(from + size, n) - from) |-> from + k - 1]

\* read_bulk_data: the traces that could be read, in the order of the files
\* (<<>> stands for the return value None, None)
read_bulk_data(files, ok) == SelectSeq(files, LAMBDA f : f \in ok)

\* the number of samples of a day file
DataLen(in, d) == IF d = in.short THEN 2 ELSE 3

\* estimate_gpu_capacity: the probe's result on a GPU, 30 otherwise
estimate_gpu_capacity(in) == IF in.use_cupy THEN in.capacity ELSE 30

Terminal == {"done", "fatal", "crashed"}

\* an exception that leaves match_templates
Crash(s, e) == [s EXCEPT !.pc = "crashed", !.exc = e]

\* cp.cuda.memory.OutOfMemoryError inside the try block
Oom(s) == [s EXCEPT !.pc = "recover", !.n_oom = @ + 1]

StartState(in) ==
    [pc |-> "start", N_MAX |-> 0, di |-> 0, ti |-> 0,
     data |-> <<>>, templates |-> <<>>, cc_len |-> 0,
     data_st |-> Unbound, data_fft |-> Unbound,
     temp_st |-> Unbound, temp_fft |-> Unbound,
     n_detections |-> 0, exc |-> "none",
     logs |-> [f \in 0..(in.n_templates - 1) |-> <<>>],
     covered |-> {}, n_oom |-> 0,
     reads |-> [data |-> 0, templates |-> 0]]

\* lines 93-106: the first chunk size
Begin(s, in) ==
    LET cap == estimate_gpu_capacity(in)
        n1  == IF in.n_templates < cap
               THEN (cap * cap) \div (2 * in.n_templates) ELSE cap
    IN  IF ChunksizeRaises(n1, in.n_data)
        THEN Crash(s, "ZeroDivisionError")
        ELSE [s EXCEPT !.N_MAX = find_optimal_chunksize(n1, in.n_data),
                       !.pc = "load_data"]

\* a slip: a data reload never invalidates the template cache
InvalidateTemplates_never(s, L) == FALSE

\* a slip: every data reload invalidates the template cache
InvalidateTemplates_always(s, L) == TRUE

\* lines 122-124: temps need to be reloaded when cc_len changes
InvalidateTemplates(s, L) == L # s.cc_len

\* lines 112-131 (LOAD_DATA); f says where an allocation fails, if anywhere;
\* reads counts the calls of read_bulk_data
LoadData(s, in, f) ==
    LET slice == Slice(in.n_data, s.di, s.N_MAX)
    IN  IF s.data = slice
        THEN IF s.data_st.state = "unbound" THEN Crash(s, "NameError")
             ELSE [s EXCEPT !.pc = IF s.data_st.state = "loaded"
                                   THEN "load_templates" ELSE "advance"]
        ELSE
        LET s1   == [s EXCEPT !.data = slice, !.reads.data = @ + 1]
            rows == read_bulk_data(slice, in.data_ok)
            L    == NextFastLen(MaxOfSeq([k \in 1..Len(rows) |->
                                             DataLen(in, rows[k])]))
        IN  IF f = "oom_read" THEN Oom(s1)
            ELSE IF rows = <<>>
            THEN [s1 EXCEPT !.data_st = IsNone, !.pc = "advance"]
            ELSE
            LET s2 == [s1 EXCEPT !.data_st = Loaded(rows, 0),
                                 !.cc_len = L,
                                 !.templates = IF InvalidateTemplates(s, L)
                                               THEN <<>> ELSE @]
            IN  IF f = "oom_fft" THEN Oom(s2)
                ELSE [s2 EXCEPT !.data_fft = Loaded(rows, L),
                                !.pc = "load_templates"]

\* lines 132-146 (LOAD_TEMPLATES)
LoadTemplates(s, in, f) ==
    IF Len(s.templates) = 0 \/ s.templates[1] # s.ti
    THEN
        LET slice == Slice(in.n_templates, s.ti, s.N_MAX)
            s1    == [s EXCEPT !.templates = slice,
                                 !.reads.templates = @ + 1]
            rows  == read_bulk_data(slice, in.templ_ok)
        IN  IF f = "oom_read" THEN Oom(s1)
            ELSE IF rows = <<>>
            \* temp_st is None: temp_st.shape raises, the handler re-raises
            THEN Crash([s1 EXCEPT !.temp_st = IsNone], "AttributeError")
            ELSE
            LET s2 == [s1 EXCEPT !.temp_st = Loaded(rows, 0)]
            IN  IF f = "oom_fft" THEN Oom(s2)
                ELSE [s2 EXCEPT !.temp_fft = Loaded(rows, s.cc_len),
                                !.pc = "compute"]
    ELSE [s EXCEPT !.pc = "compute"]

\* the (j, i) of the p-th pair of matrix_cc's loops, j over the data rows
\* and i over the template rows
PairAt(p, nt) == [j |-> ((p - 1) \div nt) + 1, i |-> ((p - 1) % nt) + 1]

\* the file process_matches appends to for template row i: temp_files[i]
LogFileOfRow(s, i) == s.templates[i]

\* the logs after the first k pairs of the current chunk were processed:
\* the line of pair (j, i) names the day file and the template whose
\* waveforms were correlated
LogsAfter(s, k) ==
    LET nt   == Len(s.temp_st.rows)
        line(p) == [data |-> s.data_st.rows[PairAt(p, nt).j],
                    wave |-> s.temp_st.rows[PairAt(p, nt).i]]
        ps(f) == SelectSeq([p \in 1..k |-> p],
                           LAMBDA p : LogFileOfRow(s, PairAt(p, nt).i) = f)
    IN  [f \in DOMAIN s.logs |->
            s.logs[f] \o [q \in 1..Len(ps(f)) |-> line(ps(f)[q])]]

PairCount(s) == Len(s.data_st.rows) * Len(s.temp_st.rows)

\* lines 148-156 (COMPUTE): matrix_cc on the loaded chunks; k = -1 when it
\* returns, else the number of pairs processed before an allocation fails
Compute(s, k) ==
    IF s.temp_st.state # "loaded" \/ s.data_st.state # "loaded"
    THEN Crash(s, "NameError")
    ELSE IF k >= 0
    THEN Oom([s EXCEPT !.logs = LogsAfter(s, k)])
    ELSE [s EXCEPT !.logs = LogsAfter(s, PairCount(s)),
                   !.n_detections = @ + PairCount(s),
                   !.covered = @ \cup {<<s.data[a], s.templates[b]>> :
                                       a \in 1..Len(s.data),
                                       b \in 1..Len(s.templates)},
                   !.pc = "advance"]

\* del a, b inside try/except: b is deleted only if a was bound
Del2(a, b) == IF a.state = "unbound" THEN b ELSE Unbound

\* a slip: the pointers advance by one item more than the chunk holds
AdvanceBy_more(s) == s.N_MAX + 1

\* the step by which both pointers advance (lines 159 and 163)
AdvanceBy(s) == s.N_MAX

\* lines 158-177 (ADVANCE)
Advance(s, in) ==
    LET ti1 == s.ti + AdvanceBy(s)
        di1 == s.di + AdvanceBy(s)
    IN  IF ti1 >= in.n_templates
        THEN IF di1 >= in.n_data
             THEN [s EXCEPT !.ti = ti1, !.di = di1, !.pc = "done"]
             ELSE [s EXCEPT !.ti = 0, !.di = di1,
                            !.data_st = Unbound,
                            !.data_fft = Del2(s.data_st, @),
                            !.pc = "load_data"]
        ELSE [s EXCEPT !.ti = ti1,
                       !.temp_st = Unbound,
                       !.temp_fft = Del2(s.temp_st, @),
                       !.pc = "load_data"]

\* a slip: the handler forgets to clear the cache key of the templates
Recover_keepcache(s, in) ==
    LET n1 == s.N_MAX - 1
        s1 == [s EXCEPT !.N_MAX = n1]
    IN  IF ChunksizeRaises(n1, in.n_data - s.di)
        THEN Crash(s1, "ZeroDivisionError")
        ELSE
        LET n2 == find_optimal_chunksize(n1, in.n_data - s.di)
        IN  IF n2 = 0
            THEN [s1 EXCEPT !.N_MAX = n2, !.pc = "fatal"]
            ELSE [s1 EXCEPT !.N_MAX = n2,
                            !.data = <<>>,
                            !.data_st = Unbound,
                            !.temp_st = Del2(s.data_st, @),
                            !.pc = "load_data"]

\* a slip: the handler retries with the chunk size it failed with
Shrunk_same(s) == s.N_MAX

\* line 183: N_MAX -= 1
Shrunk(s) == s.N_MAX - 1

\* lines 180-198 (RECOVER): the handler of an allocation failure
Recover(s, in) ==
    LET n1 == Shrunk(s)
        s1 == [s EXCEPT !.N_MAX = n1]
    IN  IF ChunksizeRaises(n1, in.n_data - s.di)
        THEN Crash(s1, "ZeroDivisionError")
        ELSE
        LET n2 == find_optimal_chunksize(n1, in.n_data - s.di)
        IN  IF n2 = 0
            THEN [s1 EXCEPT !.N_MAX = n2, !.pc = "fatal"]
            ELSE [s1 EXCEPT !.N_MAX = n2,
                            !.data = <<>>, !.templates = <<>>,
                            !.data_st = Unbound,
                            !.temp_st = Del2(s.data_st, @),
                            !.pc = "load_data"]

\* where an allocation can fail while a chunk is loaded
LoadFailures(in) ==
    IF in.use_cupy THEN {"ok", "oom_read", "oom_fft"} ELSE {"ok"}

\* how many pairs matrix_cc can have processed when an allocation fails
ComputeFailures(s, in) ==
    IF in.use_cupy /\ s.temp_st.state = "loaded" /\ s.data_st.state = "loaded"
    THEN 0..(PairCount(s) - 1) ELSE {}

\* one step of the run without any allocation failure
StepOk(s, in) ==
    CASE s.pc = "start"          -> Begin(s, in)
      [] s.pc = "load_data"      -> LoadData(s, in, "ok")
      [] s.pc = "load_templates" -> LoadTemplates(s, in, "ok")
      [] s.pc = "compute"        -> Compute(s, -1)
      [] s.pc = "advance"        -> Advance(s, in)
      [] s.pc = "recover"        -> Recover(s, in)

\* the final state of the run over the same inputs with no allocation
\* failure
RECURSIVE RunOk(_, _)
RunOk(s, in) == IF s.pc \in Terminal THEN s ELSE RunOk(StepOk(s, in), in)

Files(n, ok) == {f \in 0..(n - 1) : f \in ok}

Inputs ==
    {in \in [use_cupy : BOOLEAN,
             n_data : 1..MaxData, n_templates : 1..MaxTempl,
             data_ok : SUBSET (0..(MaxData - 1)),
             templ_ok : SUBSET (0..(MaxTempl - 1)),
             short : -1..(MaxData - 1),
             capacity : 0..MaxGpuCap] :
        /\ in.data_ok \subseteq 0..(in.n_data - 1)
        /\ in.templ_ok \subseteq 0..(in.n_templates - 1)
        /\ in.n_data - Cardinality(in.data_ok) <= MaxUnreadable
        /\ in.n_templates - Cardinality(in.templ_ok) <= MaxUnreadable
        /\ in.short < in.n_data
        /\ (~in.use_cupy => in.capacity = 0)}

OrchIdle ==
    /\ inp = [use_cupy |-> FALSE, n_data |-> 0, n_templates |-> 0,
              data_ok |-> {}, templ_ok |-> {}, short |-> -1, capacity |-> 0]
    /\ om = [StartState(inp) EXCEPT !.pc = "idle"]

OrchInit ==
    /\ inp \in Inputs
    /\ om = StartState(inp)

OStart ==
    /\ om.pc = "start"
    /\ om' = Begin(om, inp)
    /\ UNCHANGED <<inp, chunkVars, peakVars, ccVars,
                   probeVars, mergeVars, scriptVars>>

OLoadData ==
    /\ om.pc = "load_data"
    /\ \E f \in LoadFailures(inp) : om' = LoadData(om, inp, f)
    /\ UNCHANGED <<inp, chunkVars, peakVars, ccVars,
                   probeVars, mergeVars, scriptVars>>

OLoadTemplates ==
    /\ om.pc = "load_templates"
    /\ \E f \in LoadFailures(inp) : om' = LoadTemplates(om, inp, f)
    /\ UNCHANGED <<inp, chunkVars, peakVars, ccVars,
                   probeVars, mergeVars, scriptVars>>

OCompute ==
    /\ om.pc = "compute"
    /\ \E k \in {-1} \cup ComputeFailures(om, inp) : om' = Compute(om, k)
    /\ UNCHANGED <<inp, chunkVars, peakVars, ccVars,
                   probeVars, mergeVars, scriptVars>>

OAdvance ==
    /\ om.pc = "advance"
    /\ om' = Advance(om, inp)
    /\ UNCHANGED <<inp, chunkVars, peakVars, ccVars,
                   probeVars, mergeVars, scriptVars>>

ORecover ==
    /\ om.pc = "recover"
    /\ om' = Recover(om, inp)
    /\ UNCHANGED <<inp, chunkVars, peakVars, ccVars,
                   probeVars, mergeVars, scriptVars>>

----------------------------------------------------------------------------
(* matrix_cc called with one template and one data trace of the same     *)
(* amplitude scale *)

PairTemplSamples == {1, 2}
PairDataSamples == {0, 100, 200}     \* 0, 1.00 and 2.00 in units of 0.01

PairInit ==
    /\ mc_N \in 1..MaxTemplLen
    /\ mc_n_templates = 1
    /\ mc_data_len \in {<<M>> : M \in 1..MaxPairData}
    /\ mc_float64 \in BOOLEAN
    /\ mc_config \in {c \in Configs : c.mad_threshold = 0 /\ c.combine_thresholds}
    /\ mc_pc = "call"
    /\ mc_j = 0
    /\ mc_i = 0
    /\ mc_trace \in [1..mc_data_len[1] -> PairDataSamples]
    /\ mc_temp \in [1..mc_N -> PairTemplSamples]
    /\ mc_pair = NoPair
    /\ mc_written = <<>>
    /\ mc_n_matches = 0
    /\ mc_correlated = {}
    /\ mc_log = [i \in 0..(mc_n_templates - 1) |-> <<>>]

\* lines 291-348 for templates = [mc_temp] and data = [mc_trace]
McCall ==
    /\ mc_pc = "call"
    /\ LET M     == mc_data_len[1]
           L     == NextFastLen(M)
           pair  == PairCC(mc_temp, mc_trace, L, mc_float64)
           found == find_peaks(pair.cc, mc_N, mc_config)
           lines == MatchLines(found, mc_temp, mc_trace)
       IN  IF mc_N > L \/ TooShort(M, mc_N)
           THEN UNCHANGED <<mc_i, mc_pair, mc_written, mc_n_matches,
                            mc_correlated, mc_log>>
           ELSE /\ mc_pair' = pair
                /\ mc_written' = lines
                /\ mc_n_matches' = Len(lines)
                /\ mc_log' = [mc_log EXCEPT ![0] = process_matches(@, lines, 0)]
                /\ mc_correlated' = {<<0, 0>>}
                /\ mc_i' = 1
    /\ mc_j' = 1
    /\ mc_pc' = "returned"
    /\ UNCHANGED <<ccInputs, mc_trace, mc_temp>>
    /\ UNCHANGED <<chunkVars, peakVars, orchVars,
                   probeVars, mergeVars, scriptVars>>

----------------------------------------------------------------------------
(* estimate_gpu_capacity *)

\* a slip: the buffer of the previous step is released before the next
\* one is requested
Fits_alone(size, free, held) == size <= free

\* cp.empty succeeds: the pool serves the request from the memory that the
\* live buffers leave free
Fits(size, free, held) == size + held <= free

\* the size of a (cc_len, K, K) buffer in (cc_len, 1, 1) buffers
BufferSize(K) == K * K

CpuCapacity == 30

ProbeIdle ==
    /\ gp_use_cupy = FALSE
    /\ gp_free = 0
    /\ gp_N_MAX = 0
    /\ gp_cc = 0
    /\ gp_pc = "idle"
    /\ gp_ret = -1

ProbeInit ==
    /\ gp_use_cupy \in BOOLEAN
    /\ gp_free \in 0..MaxFreeMem
    /\ gp_N_MAX = 0
    /\ gp_cc = 0
    /\ gp_pc = "enter"
    /\ gp_ret = -1

\* lines 48-49: without a GPU the capacity is a constant
EgcCpu ==
    /\ gp_pc = "enter"
    /\ ~gp_use_cupy
    /\ gp_ret' = CpuCapacity
    /\ gp_pc' = "returned"
    /\ UNCHANGED <<gp_use_cupy, gp_free, gp_N_MAX, gp_cc>>
    /\ UNCHANGED <<chunkVars, peakVars, ccVars, orchVars, mergeVars,
                   scriptVars>>

\* lines 50-55
EgcEnter ==
    /\ gp_pc = "enter"
    /\ gp_use_cupy
    /\ gp_N_MAX' = 1
    /\ gp_pc' = "loop"
    /\ UNCHANGED <<gp_use_cupy, gp_free, gp_cc, gp_ret>>
    /\ UNCHANGED <<chunkVars, peakVars, ccVars, orchVars, mergeVars,
                   scriptVars>>

\* lines 57-59, 62: the allocation succeeds; cc is rebound to the new
\* buffer, which releases the old one, and N_MAX is incremented
EgcAllocate ==
    /\ gp_pc = "loop"
    /\ Fits(BufferSize(gp_N_MAX), gp_free, gp_cc)
    /\ gp_cc' = BufferSize(gp_N_MAX)
    /\ gp_N_MAX' = gp_N_MAX + 1
    /\ UNCHANGED <<gp_use_cupy, gp_free, gp_pc, gp_ret>>
    /\ UNCHANGED <<chunkVars, peakVars, ccVars, orchVars, mergeVars,
                   scriptVars>>

\* lines 60-64: OutOfMemoryError, break, return N_MAX - 1
EgcBreak ==
    /\ gp_pc = "loop"
    /\ ~Fits(BufferSize(gp_N_MAX), gp_free, gp_cc)
    /\ gp_ret' = gp_N_MAX - 1
    /\ gp_cc' = 0
    /\ gp_pc' = "returned"
    /\ UNCHANGED <<gp_use_cupy, gp_free, gp_N_MAX>>
    /\ UNCHANGED <<chunkVars, peakVars, ccVars, orchVars, mergeVars,
                   scriptVars>>

----------------------------------------------------------------------------
(* create_event_families.merge *)

MaxTDiffs == {1, 2}       \* config.max_t_diff
DetectionCCs == {60, 90}  \* cc of a detection, in hundredths

\* line 103 for the rows i, i + 1 (rows count from 0)
MergeMask(events, i, max_t_diff) ==
    At(events, i + 1).t - At(events, i).t <= max_t_diff

\* lines 112-117: the for loop from row i on; a row that is merged into its
\* successor carries what was merged into it before
RECURSIVE MergeFrom(_, _, _, _)
MergeFrom(events, timestamps, i, max_t_diff) ==
    IF i + 1 >= Len(events) THEN [events |-> events, timestamps |-> timestamps]
    ELSE IF ~MergeMask(events, i, max_t_diff)
    THEN MergeFrom(events, timestamps, i + 1, max_t_diff)
    ELSE MergeFrom(
            [events EXCEPT ![i + 2].cc = @ \o At(events, i).cc],
            [timestamps EXCEPT ![i + 2] = @ \o At(timestamps, i)],
            i + 1, max_t_diff)

\* lines 119-121: the rows whose del_mask is False
Kept(events, max_t_diff) ==
    {i \in 0..(Len(events) - 1) :
        i = Len(events) - 1 \/ ~MergeMask(events, i, max_t_diff)}

\* the rows of a sequence at the lags of a set, in order
RECURSIVE Select(_, _, _)
Select(seq, keep, i) ==
    IF i >= Len(seq) THEN <<>>
    ELSE (IF i \in keep THEN <<At(seq, i)>> ELSE <<>>)
         \o Select(seq, keep, i + 1)

\* np.argmax(np.abs(cc)): the first position of the largest value
ArgMax(cc) ==
    CHOOSE a \in 1..Len(cc) :
        /\ \A b \in 1..Len(cc) : Abs(cc[a]) >= Abs(cc[b])
        /\ \A b \in 1..(a - 1) : Abs(cc[b]) < Abs(cc[a])

\* lines 106-111: every event gets the time of its largest cc; members are
\* the times of all detections merged into it
Merged(events, timestamps) ==
    [i \in 1..Len(events) |->
        [time    |-> timestamps[i][ArgMax(events[i].cc)],
         cc      |-> events[i].cc,
         members |-> timestamps[i]]]

\* event_list returns the detections sorted by origin time
SortedDetections ==
    {d \in SeqsOf([t : 0..MaxTime, cc : {<<c>> : c \in DetectionCCs}],
                  1, MaxDetections) :
        \A i \in 1..(Len(d) - 1) : d[i].t <= d[i + 1].t}

MergeIdle ==
    /\ mg_max_t_diff = 0
    /\ mg_events = <<>>
    /\ mg_timestamps = <<>>
    /\ mg_pc = "idle"
    /\ mg_ret = <<>>

MergeInit ==
    /\ mg_max_t_diff \in MaxTDiffs
    /\ mg_events \in SortedDetections
    /\ mg_timestamps = <<>>
    /\ mg_pc = "enter"
    /\ mg_ret = <<>>

\* lines 96-99
MergeEnter ==
    /\ mg_pc = "enter"
    /\ IF Len(mg_events) < 2
       THEN /\ mg_ret' = [i \in 1..Len(mg_events) |->
                            [time    |-> mg_events[i].t,
                             cc      |-> mg_events[i].cc,
                             members |-> <<mg_events[i].t>>]]
            /\ mg_pc' = "returned"
            /\ UNCHANGED mg_timestamps
       ELSE /\ mg_timestamps' = [i \in 1..Len(mg_events) |-> <<mg_events[i].t>>]
            /\ mg_pc' = "loop"
            /\ UNCHANGED mg_ret
    /\ UNCHANGED <<mg_max_t_diff, mg_events>>
    /\ UNCHANGED <<chunkVars, peakVars, ccVars, orchVars, probeVars,
                   scriptVars>>

\* lines 102-103, 112-121: one pass of the while loop that merges
MergePass ==
    /\ mg_pc = "loop"
    /\ \E i \in 0..(Len(mg_events) - 2) : MergeMask(mg_events, i, mg_max_t_diff)
    /\ LET r    == MergeFrom(mg_events, mg_timestamps, 0, mg_max_t_diff)
           keep == Kept(mg_events, mg_max_t_diff)
       IN  /\ mg_events' = Select(r.events, keep, 0)
           /\ mg_timestamps' = Select(r.timestamps, keep, 0)
    /\ UNCHANGED <<mg_max_t_diff, mg_pc, mg_ret>>
    /\ UNCHANGED <<chunkVars, peakVars, ccVars, orchVars, probeVars,
                   scriptVars>>

\* lines 102-111: nothing left to merge
MergeReturn ==
    /\ mg_pc = "loop"
    /\ \A i \in 0..(Len(mg_events) - 2) : ~MergeMask(mg_events, i, mg_max_t_diff)
    /\ mg_ret' = Merged(mg_events, mg_timestamps)
    /\ mg_pc' = "returned"
    /\ UNCHANGED <<mg_max_t_diff, mg_events, mg_timestamps>>
    /\ UNCHANGED <<chunkVars, peakVars, ccVars, orchVars, probeVars,
                   scriptVars>>

----------------------------------------------------------------------------
(* scripts/match_templates.py: the split over several GPUs *)

\* template files are named <channel>_<template id>_<npts>
Channels == {"HHZ", "HHN"}
TemplateIds == {1, 2}
Lengths == {100, 200}
TemplateFiles == [cha : Channels, id : TemplateIds, npts : Lengths]

\* group_by_channel_length: one group per channel and template length
\* that occurs
Groups(files) ==
    {g \in {{f \in files : f.cha = c /\ f.npts = l} :
               c \in Channels, l \in Lengths} : g # {}}

ChannelOf(g) == (CHOOSE f \in g : TRUE).cha

\* the orders in which the generator can yield the groups: channels and
\* lengths are iterated as Python sets, the groups of one channel are
\* contiguous
GroupOrders(files) ==
    LET S == Groups(files)
        n == Cardinality(S)
    IN  {s \in [1..n -> S] :
            /\ \A i, j \in 1..n : i # j => s[i] # s[j]
            /\ \A i, j, k \in 1..n :
                   (i < j /\ j < k /\ ChannelOf(s[i]) = ChannelOf(s[k]))
                       => ChannelOf(s[j]) = ChannelOf(s[i])}

\* a slip: the chunk size is rounded down
SplitChunksize_floor(n_groups, n_gpu) == n_groups \div n_gpu

\* line 50: int(np.ceil(len(template_groups) / config.n_gpu))
SplitChunksize(n_groups, n_gpu) == CeilDiv(n_groups, n_gpu)

\* config.cuda_devices: as many devices as n_gpu (config.py, lines 146-155)
cuda_devices(n_gpu) == [k \in 1..n_gpu |-> k - 1]

\* list(islice(data, N)) of chunks(), data having yielded `next` items
islice(groups, next, N) ==
    SubSeq(groups, next + 1, Min2(next + N, Len(groups)))

SplitIdle ==
    /\ sp_pc = "idle"
    /\ sp_template_files = {}
    /\ sp_n_gpu = 0
    /\ sp_groups = <<>>
    /\ sp_next = 0
    /\ sp_args = <<>>
    /\ sp_done = <<>>
    /\ sp_logs = <<>>

SplitInit ==
    /\ sp_pc = "main"
    /\ sp_template_files \in (SUBSET TemplateFiles) \ {{}}
    /\ sp_n_gpu \in 2..MaxGpus
    /\ sp_groups = <<>>
    /\ sp_next = 0
    /\ sp_args = <<>>
    /\ sp_done = <<>>
    /\ sp_logs = [f \in sp_template_files |-> {}]

\* lines 44-51: the groups, the chunk size and the generator of chunks
SplitMain ==
    /\ sp_pc = "main"
    /\ sp_groups' \in GroupOrders(sp_template_files)
    /\ sp_pc' = "zip"
    /\ UNCHANGED <<sp_template_files, sp_n_gpu, sp_next, sp_args, sp_done,
                   sp_logs, sc_pc, sc_template_files>>
    /\ UNCHANGED <<chunkVars, peakVars, ccVars, orchVars, probeVars,
                   mergeVars>>

\* lines 54-57: one step of zip(temp_lists, config.cuda_devices), which
\* takes the next chunk and then the next device and stops when either is
\* exhausted; pool.starmap then starts one tm_worker per element of args
SplitZip ==
    /\ sp_pc = "zip"
    /\ LET N     == SplitChunksize(Len(sp_groups), sp_n_gpu)
           chunk == islice(sp_groups, sp_next, N)
           devs  == cuda_devices(sp_n_gpu)
       IN  IF chunk = <<>>
           THEN /\ sp_pc' = "workers"
                /\ sp_done' = [w \in 1..Len(sp_args) |-> 0]
                /\ UNCHANGED <<sp_next, sp_args>>
           ELSE IF Len(sp_args) >= Len(devs)
           THEN /\ sp_pc' = "workers"
                /\ sp_done' = [w \in 1..Len(sp_args) |-> 0]
                /\ sp_next' = sp_next + Len(chunk)
                /\ UNCHANGED sp_args
           ELSE /\ sp_args' = Append(sp_args,
                                     [temps |-> chunk,
                                      cuda_device |-> devs[Len(sp_args) + 1]])
                /\ sp_next' = sp_next + Len(chunk)
                /\ UNCHANGED <<sp_pc, sp_done>>
    /\ UNCHANGED <<sp_template_files, sp_n_gpu, sp_groups, sp_logs,
                   sc_pc, sc_template_files>>
    /\ UNCHANGED <<chunkVars, peakVars, ccVars, orchVars, probeVars,
                   mergeVars>>

\* lines 71-77: worker w matches the next group of its list; match_templates
\* appends to the logs of the templates of that group
TmWorker(w) ==
    /\ sp_pc = "workers"
    /\ sp_done[w] < Len(sp_args[w].temps)
    /\ LET temps == sp_args[w].temps[sp_done[w] + 1]
       IN  sp_logs' = [f \in DOMAIN sp_logs |->
                          IF f \in temps THEN sp_logs[f] \cup {w}
                          ELSE sp_logs[f]]
    /\ sp_done' = [sp_done EXCEPT ![w] = @ + 1]
    /\ UNCHANGED <<sp_pc, sp_template_files, sp_n_gpu, sp_groups, sp_next,
                   sp_args, sc_pc, sc_template_files>>
    /\ UNCHANGED <<chunkVars, peakVars, ccVars, orchVars, probeVars,
                   mergeVars>>

TmWorkers == \E w \in 1..Len(sp_args) : TmWorker(w)

----------------------------------------------------------------------------
(* scripts/match_templates.py: the templates of the next invocation *)

ScriptIdle ==
    /\ sc_pc = "idle"
    /\ sc_template_files = {}

\* the first invocation, with an empty matches_dir, hands the templates
\* 0 .. n_templates - 1 to match_templates
ScriptInit ==
    /\ sc_pc = "matching"
    /\ sc_template_files = 0..(inp.n_templates - 1)

\* os.listdir(config.matches_dir): process_matches creates the match file of
\* a template with the first line it appends
MatchFiles(s) == {t \in DOMAIN s.logs : s.logs[t] # <<>>}

\* lines 37-42 of the invocation that follows the end of the run: the
\* templates that have a match file are removed from the input
ScMain ==
    /\ sc_pc = "matching"
    /\ om.pc \in Terminal
    /\ sc_template_files' =
           {t \in 0..(inp.n_templates - 1) : t \notin MatchFiles(om)}
    /\ sc_pc' = IF sc_template_files' = {} THEN "nothing" ELSE "selected"
    /\ UNCHANGED <<sp_pc, sp_template_files, sp_n_gpu, sp_groups, sp_next,
                   sp_args, sp_done, sp_logs>>
    /\ UNCHANGED <<chunkVars, peakVars, ccVars, orchVars, probeVars,
                   mergeVars>>

----------------------------------------------------------------------------
(* Specifications *)

InitChunk ==
    /\ ChunkInit /\ PeaksIdle /\ CCIdle /\ OrchIdle /\ ProbeIdle /\ MergeIdle
    /\ SplitIdle /\ ScriptIdle
NextChunk == ChunkCall
SpecChunk == InitChunk /\ [][NextChunk]_vars

InitPeaks ==
    /\ PeaksInit /\ ChunkIdle /\ CCIdle /\ OrchIdle /\ ProbeIdle /\ MergeIdle
    /\ SplitIdle /\ ScriptIdle
NextPeaks == PeaksCall
SpecPeaks == InitPeaks /\ [][NextPeaks]_vars

InitCC ==
    /\ CCInit /\ ChunkIdle /\ PeaksIdle /\ OrchIdle /\ ProbeIdle /\ MergeIdle
    /\ SplitIdle /\ ScriptIdle
NextCC ==
    \/ McEnter
    \/ McTrace
    \/ McSkipTrace
    \/ McPair
    \/ McNextTrace
    \/ McReturn
SpecCC == InitCC /\ [][NextCC]_vars

InitPair ==
    /\ PairInit /\ ChunkIdle /\ PeaksIdle /\ OrchIdle /\ ProbeIdle /\ MergeIdle
    /\ SplitIdle /\ ScriptIdle
NextPair == McCall
SpecPair == InitPair /\ [][NextPair]_vars

InitProbe ==
    /\ ProbeInit /\ ChunkIdle /\ PeaksIdle /\ CCIdle /\ OrchIdle /\ MergeIdle
    /\ SplitIdle /\ ScriptIdle
NextProbe ==
    \/ EgcCpu
    \/ EgcEnter
    \/ EgcAllocate
    \/ EgcBreak
SpecProbe == InitProbe /\ [][NextProbe]_vars

InitMerge ==
    /\ MergeInit /\ ChunkIdle /\ PeaksIdle /\ CCIdle /\ OrchIdle /\ ProbeIdle
    /\ SplitIdle /\ ScriptIdle
NextMerge ==
    \/ MergeEnter
    \/ MergePass
    \/ MergeReturn
SpecMerge == InitMerge /\ [][NextMerge]_vars

Init ==
    /\ OrchInit /\ ChunkIdle /\ PeaksIdle /\ CCIdle /\ ProbeIdle /\ MergeIdle
    /\ SplitIdle /\ ScriptIdle
Next ==
    \/ OStart
    \/ OLoadData
    \/ OLoadTemplates
    \/ OCompute
    \/ OAdvance
    \/ ORecover
Spec == Init /\ [][Next]_vars

\* match_templates is one sequential loop (while True, line 109): the thread
\* that runs it always takes its next step
SpecLive == Init /\ [][Next]_vars /\ WF_vars(Next)

InitSplit ==
    /\ SplitInit /\ ScriptIdle
    /\ ChunkIdle /\ PeaksIdle /\ CCIdle /\ OrchIdle /\ ProbeIdle /\ MergeIdle
NextSplit ==
    \/ SplitMain
    \/ SplitZip
    \/ TmWorkers
SpecSplit == InitSplit /\ [][NextSplit]_vars

InitScript ==
    /\ OrchInit /\ ScriptInit /\ SplitIdle
    /\ ChunkIdle /\ PeaksIdle /\ CCIdle /\ ProbeIdle /\ MergeIdle
NextScript ==
    \/ OStart
    \/ OLoadData
    \/ OLoadTemplates
    \/ OCompute
    \/ OAdvance
    \/ ORecover
    \/ ScMain
SpecScript == InitScript /\ [][NextScript]_vars

----------------------------------------------------------------------------
(* Claims *)

\* ceil(a / b) stated without the division of the code
Ceil(a, b) == CHOOSE q \in 0..a : (q - 1) * b < a /\ a <= q * b

\* C1: for capacity >= 1 and total >= 1 the balanced chunk size r satisfies
\* 1 <= r <= capacity and ceil(total / r) = ceil(total / capacity).
C1_Balance ==
    fc_ret # 0 =>
        /\ 1 <= fc_ret
        /\ fc_ret <= fc_chunk
        /\ Ceil(fc_N, fc_ret) = Ceil(fc_N, fc_chunk)

\* a call that returned a chunk size strictly below the capacity
C1_Witness == fc_ret # 0 /\ fc_ret < fc_chunk /\ fc_N > fc_chunk

\* C5: find_peaks never returns two distinct lags closer than distance.
C5_NoClosePeaks ==
    fp_ret # NoReturn =>
        \A i, j \in 1..Len(fp_ret.tops) :
            i # j => Abs(fp_ret.tops[i] - fp_ret.tops[j]) >= fp_distance

\* the lines of a template's log, as a set
LogSet(s, f) == {s.logs[f][k] : k \in 1..Len(s.logs[f])}

Grid == (0..(inp.n_data - 1)) \X (0..(inp.n_templates - 1))

\* C2: a run with allocation failures that completes leaves in every
\* template's log the same set of detections as the run over the same
\* inputs without any allocation failure.
C2_SameDetections ==
    (om.pc = "done" /\ om.n_oom > 0) =>
        LET ref == RunOk(StartState(inp), inp)
        IN  /\ ref.pc = "done"
            /\ \A f \in DOMAIN om.logs : LogSet(om, f) = LogSet(ref, f)

\* C3 as stated: at DONE every pair of the work grid was covered by a
\* matrix_cc call that returned.
C3_AllPairsCovered ==
    om.pc = "done" => om.covered = Grid

\* C3 amended: at DONE every pair whose day file is readable was covered by
\* a matrix_cc call that returned, whatever allocation failures occurred.
C3_ReadablePairsCovered ==
    om.pc = "done" =>
        \A p \in Grid : p[1] \in inp.data_ok => p \in om.covered

\* a completed run with several chunks per role whose chunk size was shrunk
C3_Witness ==
    /\ om.pc = "done"
    /\ om.n_oom > 0
    /\ om.N_MAX < inp.n_data
    /\ om.N_MAX < inp.n_templates
    /\ inp.data_ok # {}

\* C4: an allocation failure handled at chunk size 1 ends in the fatal
\* branch (error logged, exit status 1) without any further step.
C4_FatalAtOne ==
    [][(om.pc = "recover" /\ om.N_MAX = 1) => om'.pc = "fatal"]_vars

\* C6: every line of a template's log comes from that template's waveform.
C6_OwnLog ==
    \A f \in DOMAIN om.logs :
        \A k \in 1..Len(om.logs[f]) : om.logs[f][k].wave = f

\* C7: a chunk none of whose files can be read is skipped, for either role:
\* no exception leaves match_templates, nothing is written and the run
\* goes on to ADVANCE (or to the handling of an allocation failure).
C7_UnreadableChunkSkipped ==
    [][ /\ (/\ om.pc = "load_templates"
            /\ (Len(om.templates) = 0 \/ om.templates[1] # om.ti)
            /\ read_bulk_data(Slice(inp.n_templates, om.ti, om.N_MAX),
                              inp.templ_ok) = <<>>)
           => om'.pc \in {"advance", "recover"} /\ om'.logs = om.logs
        /\ (/\ om.pc = "load_data"
            /\ om.data # Slice(inp.n_data, om.di, om.N_MAX)
            /\ read_bulk_data(Slice(inp.n_data, om.di, om.N_MAX),
                              inp.data_ok) = <<>>)
           => om'.pc \in {"advance", "recover"} /\ om'.logs = om.logs
      ]_vars

\* C8: a data trace shorter than the templates is skipped: the step that
\* meets it only moves on to the next trace (no inverse transform, no line
\* written, n_matches unchanged, no exception), and no pair with M < N is
\* ever correlated.
C8_ShortTraceSkipped ==
    [][ /\ (/\ mc_pc = "data_loop"
            /\ mc_j < Len(mc_data_len)
            /\ mc_data_len[mc_j + 1] < mc_N)
           => /\ mc_pc' = "data_loop"
              /\ mc_j' = mc_j + 1
              /\ mc_n_matches' = mc_n_matches
              /\ mc_written' = mc_written
              /\ mc_correlated' = mc_correlated
        /\ \A p \in mc_correlated' : mc_data_len[p[2] + 1] >= mc_N
        /\ (mc_pc = "enter" /\ \A j \in 1..Len(mc_data_len) : mc_data_len[j] < mc_N)
           => mc_n_matches' = 0 /\ mc_correlated' = {} /\ mc_written' = <<>>
      ]_vars

\* matrix_cc returned after skipping a short trace and correlating a long one
C8_Witness ==
    /\ mc_pc = "returned"
    /\ mc_correlated # {}
    /\ \E j \in 1..Len(mc_data_len) : mc_data_len[j] < mc_N

\* C9: every correlation value handed to find_peaks, and every cc value of
\* a line written by process_matches, has magnitude <= 1.01.
C9_Bounded ==
    /\ \A k \in 1..Len(mc_pair.cc) : Abs(mc_pair.cc[k]) <= CCLimit
    /\ \A p \in 1..Len(mc_written) : Abs(mc_written[p].cc) <= CCLimit

\* a pair whose correlation exceeded 1.01 at one lag and produced a line at
\* another
C9_Witness ==
    /\ \E k \in 1..Len(mc_pair.normalized) : Abs(mc_pair.normalized[k]) > CCLimit
    /\ mc_written # <<>>

\* C10: at every lag whose energy mask is set the correlation handed to
\* find_peaks is exactly 0, in both normalization branches.
C10_MaskedIsZero ==
    \A k \in 1..Len(mc_pair.cc) : mc_pair.mask[k] => mc_pair.cc[k] = 0

\* the lags of the sequence that meet the correlation threshold, and those
\* that meet the MAD threshold
MeetingCC(day_cc, cfg) ==
    {k \in 0..(Len(day_cc) - 1) :
        AbsQ(day_cc, k) >= cfg.cc_threshold * QPerHundredth}

MeetingMad(day_cc, cfg) ==
    LET madQ == cfg.mad_threshold * MadQ(day_cc)
    IN  {k \in 0..(Len(day_cc) - 1) : AbsQ(day_cc, k) >= madQ}

\* C11: with combine_thresholds (AND) a lag is a candidate exactly when it
\* meets both thresholds, without it (OR) exactly when it meets at least one;
\* a lag meeting exactly one is rejected by AND and accepted by OR; every
\* returned lag is a candidate.
C11_CombineModes ==
    fp_ret # NoReturn =>
        LET and  == AboveThreshold(fp_cc, [fp_config EXCEPT
                                              !.combine_thresholds = TRUE])
            or   == AboveThreshold(fp_cc, [fp_config EXCEPT
                                              !.combine_thresholds = FALSE])
            c    == MeetingCC(fp_cc, fp_config)
            m    == MeetingMad(fp_cc, fp_config)
            one  == (c \ m) \cup (m \ c)
        IN  /\ and = c \cap m
            /\ or = c \cup m
            /\ one \cap and = {}
            /\ one \subseteq or
            /\ \A p \in 1..Len(fp_ret.tops) :
                fp_ret.tops[p] \in (IF fp_config.combine_thresholds
                                    THEN and ELSE or)

\* a call in AND mode on a sequence with a lag that meets the correlation
\* threshold but not the MAD threshold: nothing is returned
C11_Witness ==
    /\ fp_ret # NoReturn
    /\ fp_config.combine_thresholds
    /\ MeetingCC(fp_cc, fp_config) \ MeetingMad(fp_cc, fp_config) # {}
    /\ fp_ret.tops = <<>>

\* whether every sample of the sequence has the same value
IsConstant(day_cc) == \A k \in 1..Len(day_cc) : day_cc[k] = day_cc[1]

\* C12 as stated: a constant sequence has its MAD replaced by the water
\* level, and nothing is detected when its value is below cc_threshold, in
\* both modes and for every mad_threshold.
C12_ConstantIsEmpty ==
    (fp_ret # NoReturn /\ IsConstant(fp_cc)) =>
        /\ fp_ret.mad = MadWaterLevelQ
        /\ 0 \notin MeetingCC(fp_cc, fp_config) => fp_ret.tops = <<>>

\* C12 amended: nothing is detected when the value is below the threshold
\* the mode applies: cc_threshold in AND mode, and in OR mode mad_threshold
\* times the water level as well.
C12_ConstantBelowLocalThreshold ==
    (fp_ret # NoReturn /\ IsConstant(fp_cc)) =>
        /\ fp_ret.mad = MadWaterLevelQ
        /\ fp_ret.mad > 0
        /\ (fp_config.combine_thresholds /\ 0 \notin MeetingCC(fp_cc, fp_config))
            => fp_ret.tops = <<>>
        /\ (/\ ~fp_config.combine_thresholds
            /\ 0 \notin MeetingCC(fp_cc, fp_config)
            /\ 0 \notin MeetingMad(fp_cc, fp_config))
            => fp_ret.tops = <<>>

\* an all-zero sequence of several samples handled in OR mode with a
\* positive mad_threshold: nothing detected
C12_Witness ==
    /\ fp_ret # NoReturn
    /\ Len(fp_cc) >= 3
    /\ \A k \in 1..Len(fp_cc) : fp_cc[k] = 0
    /\ ~fp_config.combine_thresholds
    /\ fp_config.mad_threshold > 0
    /\ fp_ret.tops = <<>>

\* the maximal runs of consecutive candidate lags, as pairs <<first, last>>
Runs(day_cc, cfg) ==
    LET above == AboveThreshold(day_cc, cfg)
    IN  {r \in (0..(Len(day_cc) - 1)) \X (0..(Len(day_cc) - 1)) :
            /\ r[1] <= r[2]
            /\ \A k \in r[1]..r[2] : k \in above
            /\ (r[1] - 1) \notin above
            /\ (r[2] + 1) \notin above}

\* the first lag of a run at which the run's largest |cc| occurs
FirstMax(day_cc, r) ==
    CHOOSE k \in r[1]..r[2] :
        /\ \A b \in r[1]..r[2] : Abs(At(day_cc, k)) >= Abs(At(day_cc, b))
        /\ \A b \in r[1]..(k - 1) : Abs(At(day_cc, b)) < Abs(At(day_cc, k))

\* C20: after the run reduction every maximal run of candidate lags holds
\* exactly one mark, at the first lag of the run's maximum.
C20_OneMarkPerRun ==
    fp_ret # NoReturn =>
        \A r \in Runs(fp_cc, fp_config) :
            Candidates(fp_cc, fp_config) \cap (r[1]..r[2])
                = {FirstMax(fp_cc, r)}

\* C13: the lines of one pair are written in strictly ascending order of
\* lag (hence of detection time), appended to the template's file in that
\* order, and no step of matrix_cc rewrites or removes a line of any file.
C13_AscendingAppendOnly ==
    [][ /\ \A p \in 1..(Len(mc_written') - 1) :
            mc_written'[p].lag < mc_written'[p + 1].lag
        /\ \A i \in DOMAIN mc_log :
            /\ Len(mc_log[i]) <= Len(mc_log'[i])
            /\ SubSeq(mc_log'[i], 1, Len(mc_log[i])) = mc_log[i]
        /\ (mc_pc = "temp_loop" /\ mc_i' = mc_i + 1)
           => mc_log'[mc_i] = mc_log[mc_i] \o
                  [p \in 1..Len(mc_written') |-> <<mc_j, mc_written'[p].lag>>]
      ]_vars

\* a pair that wrote two lines to a file that already held lines of an
\* earlier pair
C13_Witness ==
    /\ Len(mc_written) >= 2
    /\ \E i \in DOMAIN mc_log : Len(mc_log[i]) > Len(mc_written)

\* the energy of the window of N samples of d that starts at lag k
RECURSIVE WindowEnergy(_, _, _)
WindowEnergy(d, k, N) ==
    IF N = 0 THEN 0
    ELSE At(d, k) * At(d, k) + WindowEnergy(d, k + 1, N - 1)

\* C15: data_norm has one element per correlation lag, M - N + 1 of them,
\* and element k is the energy of the window d[k] .. d[k+N-1].
C15_WindowEnergyAligned ==
    mc_pair # NoPair =>
        /\ Len(mc_pair.data_norm) = Len(mc_trace) - mc_N + 1
        /\ Len(mc_pair.data_norm) = Len(mc_pair.raw)
        /\ \A k \in 0..(Len(mc_trace) - mc_N) :
            At(mc_pair.data_norm, k) = WindowEnergy(mc_trace, k, mc_N)

\* a pair with a template of two samples and a longer trace whose window
\* energies differ from lag to lag
C15_Witness ==
    /\ mc_pair # NoPair
    /\ mc_N >= 2
    /\ Len(mc_trace) > mc_N
    /\ mc_pair.data_norm[1] # mc_pair.data_norm[2]
    /\ mc_pair.data_norm[1] # 0

\* the normalized cross-correlation of template and trace at lag k by its
\* definition, in hundredths (0 where the window has no energy)
NormalizedCC(temp, trace, k) ==
    LET N    == Len(temp)
        dot  == SumSeq([m \in 1..N |-> temp[m] * At(trace, k + m - 1)])
        norm == ISqrt(100 * WindowEnergy(trace, k, N) * SumSeq(Squares(temp)))
    IN  IF norm = 0 THEN 0 ELSE TruncDiv(1000 * dot, norm)

\* the trace holds the template, unscaled, at lag k
CopyAt(temp, trace, k) ==
    \A m \in 1..Len(temp) : At(trace, k + m - 1) = 100 * temp[m]

\* no lag other than k resembles the template up to the threshold
NoOtherResemblance(temp, trace, k, cfg) ==
    \A q \in 0..(Len(trace) - Len(temp)) :
        q # k => Abs(NormalizedCC(temp, trace, q)) < cfg.cc_threshold

\* C14: a trace that holds an exact copy of the template at lag k, and
\* resembles it nowhere else, gives exactly one detection, at lag k, with a
\* cc value of 1.0 up to rounding, whatever the FFT length of the chunk.
C14_ExactCopyDetected ==
    (mc_pc = "returned" /\ mc_temp # <<>>) =>
        \A k \in 0..(Len(mc_trace) - Len(mc_temp)) :
            (/\ CopyAt(mc_temp, mc_trace, k)
             /\ NoOtherResemblance(mc_temp, mc_trace, k, mc_config))
            => /\ Len(mc_written) = 1
               /\ mc_written[1].lag = k
               /\ Abs(mc_written[1].cc - 100) <= 1

\* the number of lines in all template logs
RECURSIVE TotalLines(_, _)
TotalLines(logs, n) ==
    IF n = 0 THEN 0 ELSE Len(logs[n - 1]) + TotalLines(logs, n - 1)

\* C17: at DONE n_detections equals the number of lines appended to the
\* template logs during the run.
C17_CountMatchesLines ==
    om.pc = "done" => om.n_detections = TotalLines(om.logs, inp.n_templates)

LargestProbed(free) ==
    CHOOSE K \in 0..free :
        /\ K > 0 => K * K + (K - 1) * (K - 1) <= free
        /\ (K + 1) * (K + 1) + K * K > free

\* C16: on a GPU estimate_gpu_capacity returns the largest K whose
\* (cc_len, K, K) buffer fits in the free device memory while the buffer of
\* the previous probe step is still allocated, 0 if not even K = 1 fits;
\* without a GPU it returns 30 and allocates nothing.
C16_ProbedCapacity ==
    /\ gp_ret # -1 =>
           gp_ret = IF gp_use_cupy THEN LargestProbed(gp_free) ELSE 30
    /\ ~gp_use_cupy => gp_cc = 0 /\ gp_N_MAX = 0

\* a probe that returned less than the largest buffer that fits alone
C16_Witness ==
    /\ gp_use_cupy
    /\ gp_ret >= 2
    /\ (gp_ret + 1) * (gp_ret + 1) <= gp_free

\* C18: any two detections merged into one event have origin times that
\* differ by at most max_t_diff.
C18_MergedAreSimultaneous ==
    mg_pc = "returned" =>
        \A e \in 1..Len(mg_ret) :
            \A a, b \in 1..Len(mg_ret[e].members) :
                Abs(mg_ret[e].members[a] - mg_ret[e].members[b]) <= mg_max_t_diff

\* C21: the returned lags never contain two lags whose difference is at
\* most distance.
C21_SymmetricExclusion ==
    fp_ret # NoReturn =>
        \A i, j \in 1..Len(fp_ret.tops) :
            i # j => Abs(fp_ret.tops[i] - fp_ret.tops[j]) > fp_distance

\* the first lag at which the largest |cc| of the sequence occurs
FirstLargest(day_cc) == FirstMax(day_cc, <<0, Len(day_cc) - 1>>)

\* C29: when the largest |cc| of the sequence reaches the local threshold,
\* the lag of its first occurrence is among the returned lags.
C29_StrongestReturned ==
    (fp_ret # NoReturn /\ FirstLargest(fp_cc) \in AboveThreshold(fp_cc, fp_config))
        => \E p \in 1..Len(fp_ret.tops) : fp_ret.tops[p] = FirstLargest(fp_cc)

\* the FFT length of the data chunk cached under the key `data`
ChunkCcLen(data) ==
    LET rows == read_bulk_data(data, inp.data_ok)
    IN  NextFastLen(MaxOfSeq([k \in 1..Len(rows) |-> DataLen(inp, rows[k])]))

\* the caches at the call of matrix_cc (line 149)
CachesConsistent ==
    om.pc = "compute" =>
        /\ om.data = Slice(inp.n_data, om.di, om.N_MAX)
        /\ om.templates = Slice(inp.n_templates, om.ti, om.N_MAX)
        /\ read_bulk_data(om.data, inp.data_ok) # <<>>
        /\ om.cc_len = ChunkCcLen(om.data)
        /\ om.data_st = Loaded(read_bulk_data(om.data, inp.data_ok), 0)
        /\ om.data_fft =
               Loaded(read_bulk_data(om.data, inp.data_ok), om.cc_len)
        /\ om.temp_st = Loaded(read_bulk_data(om.templates, inp.templ_ok), 0)
        /\ om.temp_fft =
               Loaded(read_bulk_data(om.templates, inp.templ_ok), om.cc_len)

\* C22: whenever matrix_cc is called, both transform caches were computed
\* with cc_len = next_fast_len(longest trace of the current data chunk), the
\* cached chunks are all_data[di:di+N_MAX] and all_templates[ti:ti+N_MAX]; a
\* data reload that changes cc_len clears the template cache key, and an
\* empty key makes LOAD_TEMPLATES read the chunk again.
C22_CacheConsistency ==
    [][ /\ CachesConsistent'
        /\ (om.pc = "load_data" /\ om'.cc_len # om.cc_len)
               => om'.templates = <<>>
        /\ (om.pc = "load_templates" /\ om.templates = <<>>)
               => om'.reads.templates = om.reads.templates + 1 ]_vars

\* matrix_cc is about to be called after cc_len changed from 3 to 2 while
\* all templates fit in one chunk
C22_Witness ==
    /\ om.pc = "compute"
    /\ om.cc_len = 2
    /\ om.di > 0
    /\ 0 \in inp.data_ok
    /\ inp.short # 0
    /\ om.N_MAX >= inp.n_templates
    /\ inp.n_templates >= 2
    /\ om.n_oom = 0

\* C23: read_bulk_data is called for a role only when the requested slice
\* differs from the cached one; the template cache key changes only by such a
\* read, by a data reload that changes cc_len, or by a recovery; a run without
\* allocation failure reads the data chunk once per data-pointer position,
\* and the template chunk at most once when all templates fit in one chunk and
\* all day files have the same length.
C23_ReadOnlyOnChange ==
    [][ /\ om'.reads.data # om.reads.data
               => /\ om.pc = "load_data"
                  /\ om.data # Slice(inp.n_data, om.di, om.N_MAX)
                  /\ om.data = <<>> \/ om.data[1] < om.di
                  /\ om.data = <<>> => (om.reads.data = 0 \/ om.n_oom > 0)
        /\ om'.reads.templates # om.reads.templates
               => /\ om.pc = "load_templates"
                  /\ om.templates # Slice(inp.n_templates, om.ti, om.N_MAX)
        /\ om'.templates # om.templates
               => \/ om.pc = "recover"
                  \/ om.pc = "load_data" /\ om'.cc_len # om.cc_len
                  \/ om'.reads.templates = om.reads.templates + 1
        /\ (om'.pc = "done" /\ om'.n_oom = 0)
               => /\ om'.reads.data = Ceil(inp.n_data, om'.N_MAX)
                  /\ (om'.N_MAX >= inp.n_templates /\ inp.short = -1)
                         => om'.reads.templates <= 1 ]_vars

\* a finished run without allocation failure over several data chunks and
\* one template chunk of several templates
C23_Witness ==
    /\ om.pc = "done"
    /\ om.n_oom = 0
    /\ om.reads.data >= 2
    /\ om.reads.templates = 1
    /\ inp.short = -1
    /\ inp.n_templates >= 2

Buffers(s) == <<s.data_st, s.data_fft, s.temp_st, s.temp_fft>>

\* C24: when the handler of an allocation failure hands over to the retry,
\* none of data_st, temp_st, data_fft, temp_fft holds a buffer.
C24_ReleasedBeforeRetry ==
    [][ (om.pc = "recover" /\ om'.pc = "load_data")
            => \A k \in 1..4 : Buffers(om')[k].state # "loaded" ]_vars

\* C25: when a chunk of a role is read, no buffer of the previous chunk of
\* that role is still held.
C25_OneChunkPerRole ==
    [][ /\ om'.reads.data # om.reads.data
               => /\ om.data_st.state # "loaded"
                  /\ om.data_fft.state # "loaded"
        /\ om'.reads.templates # om.reads.templates
               => /\ om.temp_st.state # "loaded"
                  /\ om.temp_fft.state # "loaded" ]_vars

\* C28: no log holds the same detection line twice.
C28_NoLineTwice ==
    \A f \in DOMAIN om.logs :
        \A a, b \in 1..Len(om.logs[f]) :
            a # b => om.logs[f][a] # om.logs[f][b]

\* the position of a step inside one iteration of the loop
Stage(pc) ==
    CASE pc = "start"          -> 0
      [] pc = "load_data"      -> 1
      [] pc = "load_templates" -> 2
      [] pc = "compute"        -> 3
      [] pc = "advance"        -> 4
      [] pc = "recover"        -> 5
      [] OTHER                 -> 6

\* a step of the loop moves on inside its iteration, or advances (di, ti)
\* in lexicographic order at the same chunk size, or decreases N_MAX
Progress ==
    om.pc # "start" =>
        \/ om'.N_MAX < om.N_MAX
        \/ /\ om'.N_MAX = om.N_MAX
           /\ \/ om'.di > om.di
              \/ om'.di = om.di /\ om'.ti > om.ti
        \/ /\ om'.N_MAX = om.N_MAX
           /\ om'.di = om.di
           /\ om'.ti = om.ti
           /\ Stage(om'.pc) > Stage(om.pc)

\* C26: every step of the loop makes progress in (N_MAX descending, (di, ti)
\* ascending, position in the iteration), and every run ends: it reaches DONE
\* or leaves match_templates by an exit or an exception.
C26_Terminates ==
    [][Progress]_vars /\ <>(om.pc \in Terminal)

\* a run that reached DONE after two allocation failures, with an
\* unreadable day file
C26_Witness ==
    /\ om.pc = "done"
    /\ om.n_oom >= 2
    /\ inp.data_ok # 0..(inp.n_data - 1)

\* the places <<worker, position>> of args at which group g was handed out
Handed(g) ==
    {wk \in UNION {{<<w, k>> : k \in 1..Len(sp_args[w].temps)} :
                      w \in 1..Len(sp_args)} :
        sp_args[wk[1]].temps[wk[2]] = g}

\* C27: with n_gpu > 1 there is at most one worker per GPU, every template
\* group is handed to exactly one worker, exactly once, and no log is
\* appended to by two workers.
C27_DisjointPartitions ==
    /\ Len(sp_args) <= sp_n_gpu
    /\ sp_pc = "workers" =>
           \A g \in Groups(sp_template_files) : Cardinality(Handed(g)) = 1
    /\ \A f \in DOMAIN sp_logs : Cardinality(sp_logs[f]) <= 1

\* all workers are through, there were more groups than workers, and every
\* template was matched by some worker
C27_Witness ==
    /\ sp_pc = "workers"
    /\ Len(sp_args) >= 2
    /\ Len(sp_groups) > Len(sp_args)
    /\ \A w \in 1..Len(sp_args) : sp_done[w] = Len(sp_args[w].temps)
    /\ \A f \in DOMAIN sp_logs : sp_logs[f] # {}

\* C30: a template that the next invocation of the script leaves out,
\* because it has a match file, was matched against every readable day file
\* of the channel.
C30_SkippedAreComplete ==
    sc_pc \in {"selected", "nothing"} =>
        \A t \in 0..(inp.n_templates - 1) :
            t \notin sc_template_files =>
                \A d \in inp.data_ok : <<d, t>> \in om.covered

============================================================================
